---- MODULE Spec2Model ----
(***************************************************************************)
(* Pub-Sub log aggregator (src/aggregator/app.py): Flask request handlers  *)
(* append events to an in-memory queue guarded by queue_lock and count     *)
(* them as received; a pool of worker threads pops events and persists     *)
(* them into PostgreSQL with an INSERT that relies on the UNIQUE           *)
(* constraint on processed_events.event_id, updating the single stats row  *)
(* in the same transaction.                                                *)
(*                                                                         *)
(* The store is modelled by what the code uses of it: transactions         *)
(* (pending insert + pending counter update become visible at commit),     *)
(* the unique index (a second inserter of the same event_id waits for the  *)
(* first transaction and then sees the violation), NOT NULL and            *)
(* VARCHAR(255) checks, the row lock of the stats row, and outages: while  *)
(* the server is down connections cannot be obtained, open transactions    *)
(* are aborted and open connections are broken.                            *)
(***************************************************************************)
EXTENDS Integers, Sequences, FiniteSets, Bags, TLC

(***************************************************************************)
(* Bounds of the model.                                                    *)
(***************************************************************************)
MaxEvents == 2
MaxOutages == 1
NumHandlers == 2

(***************************************************************************)
(* Program constants.                                                      *)
(***************************************************************************)
NumWorkers == 4
max_retries == 5
VarcharLimit == 255

(***************************************************************************)
(* Values sent by producers.  NULL is JSON null / Python None.             *)
(***************************************************************************)
NULL == "NULL"
TsZ == "2025-01-01T00:00:00Z"
TsOffset == "2025-01-01T00:00:00+00:00"
TsBad == "not-a-timestamp"
DtParsed == "datetime(2025,1,1,0,0,0,tzinfo=utc)"
ValueError == "ValueError"
LongTopic == "topic-of-256-characters"

required == <<"topic", "event_id", "timestamp", "source", "payload">>

\* len() of the strings the model uses, as the VARCHAR(255) columns see them
StrLen(s) == IF s = LongTopic THEN 256 ELSE 8

\* data['timestamp'].replace('Z', '+00:00')
ReplaceZ(s) == IF s = TsZ THEN TsOffset ELSE s

\* datetime.fromisoformat(...): a datetime, or ValueError
FromIsoFormat(s) == IF s = TsOffset THEN DtParsed ELSE ValueError

\* the try/except around the timestamp parse: None has no .replace
ParseTimestamp(raw) ==
    IF raw = NULL THEN ValueError ELSE FromIsoFormat(ReplaceZ(raw))

\* json.dumps(payload)
JsonDumps(p) ==
    CASE p = NULL -> "null"
      [] p = "dict()" -> "{}"
      [] p = "dict(data=test)" -> "{\"data\": \"test\"}"
      [] OTHER -> "\"" \o p \o "\""

RawEvent(t, e, ts, s, p) ==
    [topic |-> t, event_id |-> e, timestamp |-> ts, source |-> s, payload |-> p]

EvA == RawEvent("t1", "e1", TsZ, "s1", "dict()")
EvB == RawEvent("t2", "e1", TsOffset, "s1", "dict(data=test)")
EvC == RawEvent("t1", "e2", TsZ, "s1", "dict()")
EvNullTopic == RawEvent(NULL, "e2", TsZ, "s1", "dict()")
EvLongTopic == RawEvent(LongTopic, "e2", TsZ, "s1", NULL)
EvBadTs == RawEvent("t1", "e1", TsBad, "s1", "dict()")
EvMissing == [topic |-> "t1"]

EventIds == {"e1", "e2"}

SingleBodies == {EvA, EvB, EvC, EvNullTopic, EvLongTopic, EvBadTs, EvMissing}
BatchBodies ==
    { <<>>, <<EvA>>, <<EvBadTs>>, <<EvA, EvA>>, <<EvA, EvC>>,
      <<EvC, EvMissing>>, <<EvBadTs, EvA>> }

BatchRequests == {[events |-> b] : b \in BatchBodies} \cup {[batch |-> <<EvA>>]}

NoEvent == [event_id |-> "none"]
NoRow == [event_id |-> "none"]

(***************************************************************************)
(* State.  Worker threads run the same function and keep nothing between   *)
(* iterations, and request handler threads are interchangeable too, so     *)
(* each pool is a bag of thread-local states: the state records how many   *)
(* threads are at each position, not which.                                *)
(*                                                                         *)
(* A worker is [pc, conn, ev, failed, ins]: its position, its connection   *)
(* ("none", "open", "broken"), the event it popped, whether the current    *)
(* persist attempt hit a store error, and the row its open transaction     *)
(* inserted.  A handler is [pc, conn, route, events, idx, count, status,   *)
(* enq, counted, queue_size]: the request it serves, the loop position,    *)
(* the response, and what the request appended and counted so far.         *)
(***************************************************************************)
VARIABLES
    main,              \* the main thread: [pc, conn, attempt]
    db_up,             \* the PostgreSQL server accepts connections
    outages,           \* outages so far (bounded by MaxOutages)
    event_queue,       \* the global list event_queue
    queue_lock,        \* queue_lock.locked()
    processed_events,  \* committed rows of table processed_events, commit order
    stats,             \* committed rows of table stats (empty, or the single row)
    row_lock,          \* some open transaction holds the lock of the stats row
    workers,           \* bag of worker thread states
    handlers,          \* bag of request handler thread states
    requests,          \* events submitted so far (bounded by MaxEvents)
    hist               \* history: events accepted and persist outcomes, the
                       \* events in the order of their append and of their pop

vars == <<main, db_up, outages, event_queue, queue_lock, processed_events,
          stats, row_lock, workers, handlers, requests, hist>>

ZeroStats == [id |-> 1, received |-> 0, unique_processed |-> 0,
              duplicate_dropped |-> 0]

\* SELECT <name> FROM stats WHERE id = 1 (0 before the row exists)
Counter(name) == IF stats = <<>> THEN 0 ELSE stats[1][name]

\* UPDATE stats SET <name> = <name> + 1 WHERE id = 1
IncrementCounter(name) ==
    IF stats = <<>> THEN stats
    ELSE <<[stats[1] EXCEPT ![name] = @ + 1]>>

StoredIds == {processed_events[i].event_id : i \in 1..Len(processed_events)}

NewWorker == [pc |-> "w_lock", conn |-> "none", ev |-> NoEvent,
              failed |-> FALSE, ins |-> NoRow]

NewRequest(route, events) ==
    [pc |-> "h_lock", conn |-> "none", route |-> route, events |-> events,
     idx |-> 1, count |-> 0, status |-> 0, enq |-> <<>>, counted |-> 0,
     queue_size |-> 0]

IdleHandler == [NewRequest("none", <<>>) EXCEPT !.pc = "h_idle"]

\* n threads in state r
Pool(r, n) == [x \in {r} |-> n]

\* the pool after one thread went from state old to state new
Step(pool, old, new) == (pool (-) SetToBag({old})) (+) SetToBag({new})

\* the process starts on a database holding rows and st
InitOn(rows, st) ==
    /\ main = [pc |-> "init_database", conn |-> "none", attempt |-> 0]
    /\ db_up = TRUE
    /\ outages = 0
    /\ event_queue = <<>>
    /\ queue_lock = FALSE
    /\ processed_events = rows
    /\ stats = st
    /\ row_lock = FALSE
    /\ workers = EmptyBag
    /\ handlers = EmptyBag
    /\ requests = 0
    /\ hist = [accepted |-> [e \in EventIds |-> 0],
               created |-> [e \in EventIds |-> 0],
               duplicate |-> [e \in EventIds |-> 0],
               failed |-> 0,
               store_error |-> FALSE,
               appended |-> <<>>,
               popped |-> <<>>]

\* a fresh database
Init == InitOn(<<>>, <<>>)

(***************************************************************************)
(* The store's environment: the server goes down and comes back.  Going    *)
(* down aborts every open transaction (its pending insert and its row lock *)
(* vanish) and breaks every open connection; committed rows survive.       *)
(***************************************************************************)
Aborted(t) ==
    IF t.conn # "open" THEN t
    ELSE IF "ins" \in DOMAIN t THEN [t EXCEPT !.conn = "broken", !.ins = NoRow]
    ELSE [t EXCEPT !.conn = "broken"]

RECURSIVE Copies(_, _)
Copies(pool, S) ==
    IF S = {} THEN 0
    ELSE LET t == CHOOSE x \in S : TRUE
         IN pool[t] + Copies(pool, S \ {t})

AbortAll(pool) ==
    [a \in {Aborted(t) : t \in DOMAIN pool} |->
        Copies(pool, {t \in DOMAIN pool : Aborted(t) = a})]

DbDown ==
    /\ db_up
    /\ outages < MaxOutages
    /\ db_up' = FALSE
    /\ outages' = outages + 1
    /\ main' = Aborted(main)
    /\ workers' = AbortAll(workers)
    /\ handlers' = AbortAll(handlers)
    /\ row_lock' = FALSE
    /\ UNCHANGED <<event_queue, queue_lock, processed_events, stats, requests,
                   hist>>

DbUp ==
    /\ ~db_up
    /\ db_up' = TRUE
    /\ UNCHANGED <<main, outages, event_queue, queue_lock, processed_events,
                   stats, row_lock, workers, handlers, requests, hist>>

(***************************************************************************)
(* get_db_connection: the retry loop.  avail[i] tells whether              *)
(* psycopg2.connect succeeds at the i-th attempt.  The result is the       *)
(* connection ("connected") or the Exception raised after the last attempt *)
(* ("raise"), with the number of attempts made.                            *)
(***************************************************************************)
\* one pass of the for loop: psycopg2.connect succeeded (ok) or raised
\* OperationalError at loop index attempt
ConnectAttempt(ok, attempt) ==
    IF ok THEN "connected"
    ELSE IF attempt < max_retries - 1 THEN "retry"
    ELSE "raise"

RECURSIVE ConnectLoop(_, _)
ConnectLoop(avail, attempt) ==
    LET outcome == ConnectAttempt(avail[attempt + 1], attempt)
    IN IF outcome = "retry"
       THEN ConnectLoop(avail, attempt + 1)
       ELSE [result |-> outcome, attempts |-> attempt + 1]

get_db_connection(avail) == ConnectLoop(avail, 0)

\* A call made while the server is in state db_up: an outage that ends during
\* the retries is the call made after DbUp.
GetDbConnection == get_db_connection([i \in 1..max_retries |-> db_up]).result

(***************************************************************************)
(* __main__: init_database(), then the worker threads, then app.run.       *)
(***************************************************************************)
\* the exception is swallowed: the service starts without a schema
MainConnect_StartsDegraded ==
    /\ main.pc = "init_database"
    /\ LET outcome == ConnectAttempt(db_up, main.attempt)
       IN main' = CASE outcome = "connected" ->
                         [pc |-> "create_schema", conn |-> "open", attempt |-> 0]
                    [] outcome = "retry" -> [main EXCEPT !.attempt = @ + 1]
                    [] outcome = "raise" ->
                         [pc |-> "create_schema", conn |-> "open", attempt |-> 0]
    /\ UNCHANGED <<db_up, outages, event_queue, queue_lock, processed_events,
                   stats, row_lock, workers, handlers, requests, hist>>

\* line 39: conn = get_db_connection() in the main thread, one connection
\* attempt per step (the server may come back during the 2 s sleeps); the
\* loop variable ends with the call, and the exception raised after the
\* last attempt ends the process
MainConnect ==
    /\ main.pc = "init_database"
    /\ LET outcome == ConnectAttempt(db_up, main.attempt)
       IN main' = CASE outcome = "connected" ->
                         [pc |-> "create_schema", conn |-> "open", attempt |-> 0]
                    [] outcome = "retry" -> [main EXCEPT !.attempt = @ + 1]
                    [] outcome = "raise" -> [main EXCEPT !.pc = "refused"]
    /\ UNCHANGED <<db_up, outages, event_queue, queue_lock, processed_events,
                   stats, row_lock, workers, handlers, requests, hist>>

\* CREATE TABLE IF NOT EXISTS ..., INSERT INTO stats ... ON CONFLICT DO NOTHING,
\* commit; then the threads are started.  A broken connection raises and the
\* process exits before any thread exists.
MainCreateSchema ==
    /\ main.pc = "create_schema"
    /\ IF main.conn = "open"
       THEN /\ stats' = IF stats = <<>> THEN <<ZeroStats>> ELSE stats
            /\ main' = [main EXCEPT !.pc = "running", !.conn = "none"]
            /\ workers' = Pool(NewWorker, NumWorkers)
            /\ handlers' = Pool(IdleHandler, NumHandlers)
       ELSE /\ main' = [main EXCEPT !.pc = "refused", !.conn = "none"]
            /\ UNCHANGED <<stats, workers, handlers>>
    /\ UNCHANGED <<db_up, outages, event_queue, queue_lock, processed_events,
                   row_lock, requests, hist>>

(***************************************************************************)
(* The store's checks on INSERT INTO processed_events.                     *)
(***************************************************************************)
\* value too long for VARCHAR(255): psycopg2.DataError
TooLong(ev) ==
    \E f \in {"event_id", "topic", "source"} :
        ev[f] # NULL /\ StrLen(ev[f]) > VarcharLimit

\* NOT NULL columns: psycopg2.IntegrityError (NotNullViolation)
NullViolation(ev) ==
    \E f \in {"event_id", "topic", "timestamp", "source"} : ev[f] = NULL

\* the schema without UNIQUE on event_id
UniqueViolation_NoConstraint(ev) == FALSE

\* UNIQUE(event_id) against the committed rows: psycopg2.IntegrityError
UniqueViolation(ev) == ev.event_id \in StoredIds

\* a check that reads the committed rows only and never waits
InsertWaits_ReadThenWrite(ev) == FALSE

\* UNIQUE(event_id) against an uncommitted insert of another transaction:
\* the statement waits for that transaction to end
InsertWaits(ev) ==
    \E o \in BagToSet(workers) : o.ins # NoRow /\ o.ins.event_id = ev.event_id

\* the row the INSERT statement of insert_event writes
RowOf(ev) ==
    [event_id |-> ev.event_id, topic |-> ev.topic, timestamp |-> ev.timestamp,
     source |-> ev.source, payload |-> JsonDumps(ev.payload)]

\* the current persist attempt of w hit a store error: counted once per event
HistFailed(w) ==
    [hist EXCEPT !.failed = IF w.failed THEN @ ELSE @ + 1,
                 !.store_error = TRUE]

\* an exception leaves worker(): the thread ends
Dead == [pc |-> "dead", conn |-> "none", ev |-> NoEvent, failed |-> FALSE,
         ins |-> NoRow]

\* insert_event returned: back to the top of the while loop
Returned == NewWorker

(***************************************************************************)
(* worker(): with queue_lock: pop(0) if the queue is not empty.            *)
(***************************************************************************)
WorkerAcquire(w) ==
    /\ w.pc = "w_lock"
    /\ ~queue_lock
    /\ queue_lock' = TRUE
    /\ workers' = Step(workers, w, [w EXCEPT !.pc = "w_pop"])
    /\ UNCHANGED <<main, db_up, outages, event_queue, processed_events, stats,
                   row_lock, handlers, requests, hist>>

\* insert_event called inside the with block: the lock is kept while the
\* event is persisted
WorkerPop_PersistsUnderLock(w) ==
    /\ w.pc = "w_pop"
    /\ IF event_queue # <<>>
       THEN /\ workers' = Step(workers, w,
                               [w EXCEPT !.pc = "w_connect",
                                         !.ev = Head(event_queue)])
            /\ event_queue' = Tail(event_queue)
            /\ hist' = [hist EXCEPT !.popped = Append(@, Head(event_queue))]
            /\ UNCHANGED queue_lock
       ELSE /\ workers' = Step(workers, w, [w EXCEPT !.pc = "w_lock"])
            /\ queue_lock' = FALSE
            /\ UNCHANGED <<event_queue, hist>>
    /\ UNCHANGED <<main, db_up, outages, processed_events, stats, row_lock,
                   handlers, requests>>

\* event = event_queue[0]: the head is read but not removed
WorkerPop_PeeksHead(w) ==
    /\ w.pc = "w_pop"
    /\ queue_lock' = FALSE
    /\ IF event_queue # <<>>
       THEN /\ workers' = Step(workers, w,
                               [w EXCEPT !.pc = "w_connect",
                                         !.ev = Head(event_queue)])
            /\ hist' = [hist EXCEPT !.popped = Append(@, Head(event_queue))]
       ELSE /\ workers' = Step(workers, w, [w EXCEPT !.pc = "w_lock"])
            /\ UNCHANGED hist
    /\ UNCHANGED <<main, db_up, outages, event_queue, processed_events, stats,
                   row_lock, handlers, requests>>

\* event = event_queue.pop(): the last item instead of the first
WorkerPop_PopsLast(w) ==
    /\ w.pc = "w_pop"
    /\ queue_lock' = FALSE
    /\ IF event_queue # <<>>
       THEN /\ workers' = Step(workers, w,
                               [w EXCEPT !.pc = "w_connect",
                                         !.ev = event_queue[Len(event_queue)]])
            /\ event_queue' = SubSeq(event_queue, 1, Len(event_queue) - 1)
            /\ hist' = [hist EXCEPT
                           !.popped = Append(@, event_queue[Len(event_queue)])]
       ELSE /\ workers' = Step(workers, w, [w EXCEPT !.pc = "w_lock"])
            /\ UNCHANGED <<event_queue, hist>>
    /\ UNCHANGED <<main, db_up, outages, processed_events, stats, row_lock,
                   handlers, requests>>

\* lines 199-200 and the end of the with block; an empty queue leads to
\* time.sleep(0.1) and the next iteration
WorkerPop(w) ==
    /\ w.pc = "w_pop"
    /\ queue_lock' = FALSE
    /\ IF event_queue # <<>>
       THEN /\ workers' = Step(workers, w,
                               [w EXCEPT !.pc = "w_connect",
                                         !.ev = Head(event_queue)])
            /\ event_queue' = Tail(event_queue)
            /\ hist' = [hist EXCEPT !.popped = Append(@, Head(event_queue))]
       ELSE /\ workers' = Step(workers, w, [w EXCEPT !.pc = "w_lock"])
            /\ UNCHANGED <<event_queue, hist>>
    /\ UNCHANGED <<main, db_up, outages, processed_events, stats, row_lock,
                   handlers, requests>>

(***************************************************************************)
(* insert_event, statement by statement.                                   *)
(***************************************************************************)
\* line 88: conn = get_db_connection(), outside the try block
WorkerConnect(w) ==
    /\ w.pc = "w_connect"
    /\ IF GetDbConnection = "connected"
       THEN /\ workers' = Step(workers, w,
                               [w EXCEPT !.pc = "w_insert", !.conn = "open"])
            /\ UNCHANGED hist
       ELSE /\ workers' = Step(workers, w, Dead)
            /\ hist' = HistFailed(w)
    /\ UNCHANGED <<main, db_up, outages, event_queue, queue_lock,
                   processed_events, stats, row_lock, handlers, requests>>

\* lines 92-95: INSERT INTO processed_events
WorkerInsert(w) ==
    /\ w.pc = "w_insert"
    /\ IF w.conn = "broken" \/ TooLong(w.ev)
       THEN /\ workers' = Step(workers, w,
                               [w EXCEPT !.pc = "w_exc_rollback",
                                         !.failed = TRUE])
            /\ hist' = HistFailed(w)
       ELSE IF NullViolation(w.ev)
       THEN /\ workers' = Step(workers, w,
                               [w EXCEPT !.pc = "w_dup_rollback",
                                         !.failed = TRUE])
            /\ hist' = HistFailed(w)
       ELSE IF UniqueViolation(w.ev)
       THEN /\ workers' = Step(workers, w, [w EXCEPT !.pc = "w_dup_rollback"])
            /\ UNCHANGED hist
       ELSE /\ ~InsertWaits(w.ev)
            /\ workers' = Step(workers, w,
                               [w EXCEPT !.pc = "w_update",
                                         !.ins = RowOf(w.ev)])
            /\ UNCHANGED hist
    /\ UNCHANGED <<main, db_up, outages, event_queue, queue_lock,
                   processed_events, stats, row_lock, handlers, requests>>

\* line 97: UPDATE stats SET unique_processed = unique_processed + 1;
\* the statement takes the row lock of the stats row, waiting while another
\* transaction holds it
WorkerUpdate(w) ==
    /\ w.pc = "w_update"
    /\ IF w.conn = "broken"
       THEN /\ workers' = Step(workers, w,
                               [w EXCEPT !.pc = "w_exc_rollback",
                                         !.failed = TRUE])
            /\ hist' = HistFailed(w)
            /\ UNCHANGED row_lock
       ELSE /\ ~row_lock
            /\ row_lock' = TRUE
            /\ workers' = Step(workers, w, [w EXCEPT !.pc = "w_commit"])
            /\ UNCHANGED hist
    /\ UNCHANGED <<main, db_up, outages, event_queue, queue_lock,
                   processed_events, stats, handlers, requests>>

\* the insert committed on its own, the counter update lost
CommitInsert_RowOnly(w) ==
    /\ processed_events' = Append(processed_events, w.ins)
    /\ UNCHANGED stats

\* the rows and counters a committing insert_event transaction makes visible
CommitInsert(w) ==
    /\ processed_events' = Append(processed_events, w.ins)
    /\ stats' = IncrementCounter("unique_processed")

\* lines 98-101: conn.commit(); return (True, False)
WorkerCommit(w) ==
    /\ w.pc = "w_commit"
    /\ IF w.conn = "broken"
       THEN /\ workers' = Step(workers, w,
                               [w EXCEPT !.pc = "w_exc_rollback",
                                         !.failed = TRUE])
            /\ hist' = HistFailed(w)
            /\ UNCHANGED <<processed_events, stats, row_lock>>
       ELSE /\ CommitInsert(w)
            /\ row_lock' = FALSE
            /\ workers' = Step(workers, w, Returned)
            /\ hist' = [hist EXCEPT !.created[w.ev.event_id] = @ + 1]
    /\ UNCHANGED <<main, db_up, outages, event_queue, queue_lock, handlers,
                   requests>>

\* the handler without conn.rollback(): the UPDATE that follows runs in the
\* aborted transaction, raises, and the exception leaves worker()
WorkerDupRollback_NoRollback(w) ==
    /\ w.pc = "w_dup_rollback"
    /\ workers' = Step(workers, w, Dead)
    /\ hist' = HistFailed(w)
    /\ UNCHANGED <<main, db_up, outages, event_queue, queue_lock,
                   processed_events, stats, row_lock, handlers, requests>>

\* lines 103-104: except psycopg2.IntegrityError: conn.rollback(); on a
\* broken connection rollback() raises inside the handler
WorkerDupRollback(w) ==
    /\ w.pc = "w_dup_rollback"
    /\ IF w.conn = "broken"
       THEN /\ workers' = Step(workers, w, Dead)
            /\ hist' = HistFailed(w)
       ELSE /\ workers' = Step(workers, w, [w EXCEPT !.pc = "w_dup_update"])
            /\ UNCHANGED hist
    /\ UNCHANGED <<main, db_up, outages, event_queue, queue_lock,
                   processed_events, stats, row_lock, handlers, requests>>

\* line 105: UPDATE stats SET duplicate_dropped = duplicate_dropped + 1
WorkerDupUpdate(w) ==
    /\ w.pc = "w_dup_update"
    /\ IF w.conn = "broken"
       THEN /\ workers' = Step(workers, w, Dead)
            /\ hist' = HistFailed(w)
            /\ UNCHANGED row_lock
       ELSE /\ ~row_lock
            /\ row_lock' = TRUE
            /\ workers' = Step(workers, w, [w EXCEPT !.pc = "w_dup_commit"])
            /\ UNCHANGED hist
    /\ UNCHANGED <<main, db_up, outages, event_queue, queue_lock,
                   processed_events, stats, handlers, requests>>

\* an upsert: the duplicate overwrites the stored record with its columns
WorkerDupCommit_Overwrites(w) ==
    /\ w.pc = "w_dup_commit"
    /\ IF w.conn = "broken"
       THEN /\ workers' = Step(workers, w, Dead)
            /\ hist' = HistFailed(w)
            /\ UNCHANGED <<processed_events, stats, row_lock>>
       ELSE /\ processed_events' =
                   [i \in 1..Len(processed_events) |->
                       IF processed_events[i].event_id = w.ev.event_id
                          /\ ~NullViolation(w.ev)
                       THEN RowOf(w.ev)
                       ELSE processed_events[i]]
            /\ stats' = IncrementCounter("duplicate_dropped")
            /\ row_lock' = FALSE
            /\ workers' = Step(workers, w, Returned)
            /\ hist' = [hist EXCEPT !.duplicate[w.ev.event_id] = @ + 1]
    /\ UNCHANGED <<main, db_up, outages, event_queue, queue_lock, handlers,
                   requests>>

\* the duplicate branch without conn.commit(): closing the connection
\* discards the counter update
WorkerDupCommit_NoCommit(w) ==
    /\ w.pc = "w_dup_commit"
    /\ row_lock' = FALSE
    /\ workers' = Step(workers, w, Returned)
    /\ hist' = [hist EXCEPT !.duplicate[w.ev.event_id] = @ + 1]
    /\ UNCHANGED <<main, db_up, outages, event_queue, queue_lock,
                   processed_events, stats, handlers, requests>>

\* lines 106-109: conn.commit(); return (True, True)
WorkerDupCommit(w) ==
    /\ w.pc = "w_dup_commit"
    /\ IF w.conn = "broken"
       THEN /\ workers' = Step(workers, w, Dead)
            /\ hist' = HistFailed(w)
            /\ UNCHANGED <<stats, row_lock>>
       ELSE /\ stats' = IncrementCounter("duplicate_dropped")
            /\ row_lock' = FALSE
            /\ workers' = Step(workers, w, Returned)
            /\ hist' = [hist EXCEPT !.duplicate[w.ev.event_id] = @ + 1]
    /\ UNCHANGED <<main, db_up, outages, event_queue, queue_lock,
                   processed_events, handlers, requests>>

\* lines 111-116: except Exception: conn.rollback(); return (False, False).
\* On a broken connection rollback() itself raises and the exception leaves
\* insert_event and worker().
WorkerExcRollback(w) ==
    /\ w.pc = "w_exc_rollback"
    /\ workers' = Step(workers, w, IF w.conn = "broken" THEN Dead ELSE Returned)
    /\ UNCHANGED <<main, db_up, outages, event_queue, queue_lock,
                   processed_events, stats, row_lock, handlers, requests, hist>>

(***************************************************************************)
(* Request validation of publish and publish_batch.                        *)
(***************************************************************************)
\* for field in required: if field not in data: return 400
MissingField(data) == \E i \in 1..Len(required) : required[i] \notin DOMAIN data

\* the required-field loop, then the timestamp parse
Valid(data) ==
    /\ ~MissingField(data)
    /\ ParseTimestamp(data.timestamp) # ValueError

\* the dict appended to event_queue
QueueEvent(data) ==
    [topic |-> data.topic, event_id |-> data.event_id, source |-> data.source,
     timestamp |-> ParseTimestamp(data.timestamp), payload |-> data.payload]

\* the view function returns: the response is in status (and count)
Respond(r, status) == [r EXCEPT !.status = status, !.pc = "h_done"]

\* a best-effort loop: an invalid event is skipped, the loop goes on
RECURSIVE LoopTop_SkipsInvalid(_)
LoopTop_SkipsInvalid(r) ==
    IF r.idx > Len(r.events) THEN Respond(r, 202)
    ELSE IF ~Valid(r.events[r.idx])
    THEN LoopTop_SkipsInvalid([r EXCEPT !.idx = @ + 1])
    ELSE [r EXCEPT !.pc = "h_lock"]

\* top of the for loop of publish_batch (and the one pass of publish) for
\* request r: validate events[idx], or return 202 when the list is exhausted
LoopTop(r) ==
    IF r.idx > Len(r.events) THEN Respond(r, 202)
    ELSE IF ~Valid(r.events[r.idx]) THEN Respond(r, 400)
    ELSE [r EXCEPT !.pc = "h_lock"]

\* the request is counted as received before it is validated
Publish_CountsBeforeValidating(h, data) ==
    /\ h.pc \in {"h_idle", "h_done"}
    /\ requests + 1 <= MaxEvents
    /\ requests' = requests + 1
    /\ handlers' = Step(handlers, h, LoopTop(NewRequest("publish", <<data>>)))
    /\ stats' = IncrementCounter("received")
    /\ UNCHANGED <<main, db_up, outages, event_queue, queue_lock,
                   processed_events, row_lock, workers, hist>>

\* POST /publish with JSON body data, while fewer than limit events were
\* submitted
PublishUpTo(h, data, limit) ==
    /\ h.pc \in {"h_idle", "h_done"}
    /\ requests + 1 <= limit
    /\ requests' = requests + 1
    /\ handlers' = Step(handlers, h, LoopTop(NewRequest("publish", <<data>>)))
    /\ UNCHANGED <<main, db_up, outages, event_queue, queue_lock,
                   processed_events, stats, row_lock, workers, hist>>

\* POST /publish with JSON body data
Publish(h, data) == PublishUpTo(h, data, MaxEvents)

\* what a batch request costs of the MaxEvents budget
BatchSize(data) ==
    IF "events" \in DOMAIN data /\ Len(data.events) > 0 THEN Len(data.events) ELSE 1

\* POST /publish/batch with JSON body data
PublishBatch(h, data) ==
    /\ h.pc \in {"h_idle", "h_done"}
    /\ requests + BatchSize(data) <= MaxEvents
    /\ requests' = requests + BatchSize(data)
    /\ handlers' = Step(handlers, h,
                        IF "events" \notin DOMAIN data
                        THEN Respond(NewRequest("batch", <<>>), 400)
                        ELSE LoopTop(NewRequest("batch", data.events)))
    /\ UNCHANGED <<main, db_up, outages, event_queue, queue_lock,
                   processed_events, stats, row_lock, workers, hist>>

\* a bounded queue: enqueue waits until the workers made room
HandlerAcquire_WaitsForRoom(h) ==
    /\ h.pc = "h_lock"
    /\ ~queue_lock
    /\ event_queue = <<>>
    /\ queue_lock' = TRUE
    /\ handlers' = Step(handlers, h, [h EXCEPT !.pc = "h_append"])
    /\ UNCHANGED <<main, db_up, outages, event_queue, processed_events, stats,
                   row_lock, workers, requests, hist>>

\* with queue_lock:
HandlerAcquire(h) ==
    /\ h.pc = "h_lock"
    /\ ~queue_lock
    /\ queue_lock' = TRUE
    /\ handlers' = Step(handlers, h, [h EXCEPT !.pc = "h_append"])
    /\ UNCHANGED <<main, db_up, outages, event_queue, processed_events, stats,
                   row_lock, workers, requests, hist>>

\* event_queue.append({...}); the lock is released at the end of the block
HandlerAppend(h) ==
    /\ h.pc = "h_append"
    /\ LET ev == QueueEvent(h.events[h.idx])
       IN /\ event_queue' = Append(event_queue, ev)
          /\ handlers' = Step(handlers, h,
                              [h EXCEPT !.pc = "h_connect",
                                        !.enq = Append(@, ev)])
          /\ hist' = [hist EXCEPT !.accepted[ev.event_id] = @ + 1,
                                  !.appended = Append(@, ev)]
    /\ queue_lock' = FALSE
    /\ UNCHANGED <<main, db_up, outages, processed_events, stats, row_lock,
                   workers, requests>>

\* an exception leaves the view function: Flask answers 500
Raise500(h) == [Respond(h, 500) EXCEPT !.conn = "none"]

\* increment_received(): conn = get_db_connection()
HandlerConnect(h) ==
    /\ h.pc = "h_connect"
    /\ IF GetDbConnection = "connected"
       THEN /\ handlers' = Step(handlers, h,
                                [h EXCEPT !.pc = "h_update", !.conn = "open"])
            /\ UNCHANGED hist
       ELSE /\ handlers' = Step(handlers, h, Raise500(h))
            /\ hist' = [hist EXCEPT !.store_error = TRUE]
    /\ UNCHANGED <<main, db_up, outages, event_queue, queue_lock,
                   processed_events, stats, row_lock, workers, requests>>

\* UPDATE stats SET received = received + 1: takes the stats row lock
HandlerUpdate(h) ==
    /\ h.pc = "h_update"
    /\ IF h.conn = "broken"
       THEN /\ handlers' = Step(handlers, h, Raise500(h))
            /\ hist' = [hist EXCEPT !.store_error = TRUE]
            /\ UNCHANGED row_lock
       ELSE /\ ~row_lock
            /\ row_lock' = TRUE
            /\ handlers' = Step(handlers, h, [h EXCEPT !.pc = "h_commit"])
            /\ UNCHANGED hist
    /\ UNCHANGED <<main, db_up, outages, event_queue, queue_lock,
                   processed_events, stats, workers, requests>>

\* what follows increment_received() in request r: publish returns 202,
\* publish_batch does count += 1 and goes to the next event
AfterIncrement(r) ==
    IF r.route = "publish" THEN Respond(r, 202)
    ELSE LoopTop([r EXCEPT !.count = @ + 1, !.idx = @ + 1])

\* increment_received without commit and close: the connection stays idle
\* in its transaction, which keeps the lock of the stats row
HandlerCommit_LeavesTransactionOpen(h) ==
    /\ h.pc = "h_commit"
    /\ handlers' = Step(handlers, h,
                        AfterIncrement([h EXCEPT !.conn = "none",
                                                 !.counted = @ + 1]))
    /\ UNCHANGED <<main, db_up, outages, event_queue, queue_lock,
                   processed_events, stats, row_lock, workers, requests, hist>>

\* conn.commit(); close; then the rest of the view function up to the next
\* queue_lock or the return
HandlerCommit(h) ==
    /\ h.pc = "h_commit"
    /\ IF h.conn = "broken"
       THEN /\ handlers' = Step(handlers, h, Raise500(h))
            /\ hist' = [hist EXCEPT !.store_error = TRUE]
            /\ UNCHANGED <<stats, row_lock>>
       ELSE /\ stats' = IncrementCounter("received")
            /\ row_lock' = FALSE
            /\ handlers' = Step(handlers, h,
                                AfterIncrement([h EXCEPT !.conn = "none",
                                                         !.counted = @ + 1]))
            /\ UNCHANGED hist
    /\ UNCHANGED <<main, db_up, outages, event_queue, queue_lock,
                   processed_events, workers, requests>>

Next ==
    \/ DbDown
    \/ DbUp
    \/ MainConnect
    \/ MainCreateSchema
    \/ \E w \in BagToSet(workers) : WorkerAcquire(w)
    \/ \E w \in BagToSet(workers) : WorkerPop(w)
    \/ \E w \in BagToSet(workers) : WorkerConnect(w)
    \/ \E w \in BagToSet(workers) : WorkerInsert(w)
    \/ \E w \in BagToSet(workers) : WorkerUpdate(w)
    \/ \E w \in BagToSet(workers) : WorkerCommit(w)
    \/ \E w \in BagToSet(workers) : WorkerDupRollback(w)
    \/ \E w \in BagToSet(workers) : WorkerDupUpdate(w)
    \/ \E w \in BagToSet(workers) : WorkerDupCommit(w)
    \/ \E w \in BagToSet(workers) : WorkerExcRollback(w)
    \/ \E h \in BagToSet(handlers) : \E data \in SingleBodies : Publish(h, data)
    \/ \E h \in BagToSet(handlers) : \E data \in BatchRequests : PublishBatch(h, data)
    \/ \E h \in BagToSet(handlers) : HandlerAcquire(h)
    \/ \E h \in BagToSet(handlers) : HandlerAppend(h)
    \/ \E h \in BagToSet(handlers) : HandlerConnect(h)
    \/ \E h \in BagToSet(handlers) : HandlerUpdate(h)
    \/ \E h \in BagToSet(handlers) : HandlerCommit(h)

Spec == Init /\ [][Next]_vars

(***************************************************************************)
(* The gateway alone: the workers are started but never scheduled, and the *)
(* database may hold the rows of an earlier run of the service (the schema *)
(* is created IF NOT EXISTS and the stats row ON CONFLICT DO NOTHING).     *)
(* Request handler threads are scheduled fairly.                           *)
(***************************************************************************)
EarlierRun ==
    [rows |-> <<RowOf(QueueEvent(EvA))>>,
     stats |-> <<[id |-> 1, received |-> 1, unique_processed |-> 1,
                  duplicate_dropped |-> 0]>>]

InitGateway ==
    \/ InitOn(<<>>, <<>>)
    \/ InitOn(EarlierRun.rows, EarlierRun.stats)

HandlerStep ==
    \/ \E h \in BagToSet(handlers) : HandlerAcquire(h)
    \/ \E h \in BagToSet(handlers) : HandlerAppend(h)
    \/ \E h \in BagToSet(handlers) : HandlerConnect(h)
    \/ \E h \in BagToSet(handlers) : HandlerUpdate(h)
    \/ \E h \in BagToSet(handlers) : HandlerCommit(h)

NextGateway ==
    \/ DbDown
    \/ DbUp
    \/ MainConnect
    \/ MainCreateSchema
    \/ \E h \in BagToSet(handlers) : \E data \in SingleBodies : Publish(h, data)
    \/ \E h \in BagToSet(handlers) : \E data \in BatchRequests : PublishBatch(h, data)
    \/ HandlerStep

SpecGateway == InitGateway /\ [][NextGateway]_vars /\ WF_vars(HandlerStep)

(***************************************************************************)
(* get_events_from_db(topic) with the default limit 100 and offset 0, which *)
(* do not cut a table of at most MaxEvents rows: the dicts built from the  *)
(* selected rows, as a set (the order by received_at is not modelled).     *)
(* "if topic:" sends a missing or empty topic to the unfiltered query.     *)
(***************************************************************************)
\* event['timestamp'].isoformat()
IsoFormat(dt) == IF dt = DtParsed THEN TsOffset ELSE dt

\* the JSONB column as psycopg2 hands it back
JsonLoads(j) ==
    CASE j = "null" -> NULL
      [] j = "{}" -> "dict()"
      [] j = "{\"data\": \"test\"}" -> "dict(data=test)"
      [] OTHER -> j

ResultOf(row) ==
    [event_id |-> row.event_id, topic |-> row.topic,
     timestamp |-> IsoFormat(row.timestamp), source |-> row.source,
     payload |-> JsonLoads(row.payload)]

get_events_from_db(topic) ==
    { ResultOf(processed_events[i]) :
        i \in { j \in 1..Len(processed_events) :
                  topic \in {NULL, ""} \/ processed_events[j].topic = topic } }

(***************************************************************************)
(* The service while no store operation fails: the server stays up and the *)
(* submitted events are ones the store takes (no null column, no value     *)
(* over VARCHAR(255)); invalid requests are still submitted.  Every thread *)
(* is scheduled: an operation that stays possible is eventually executed.  *)
(***************************************************************************)
StorableBodies == {EvA, EvB, EvC, EvBadTs, EvMissing}

NextNoFailure ==
    \/ MainConnect
    \/ MainCreateSchema
    \/ \E w \in BagToSet(workers) : WorkerAcquire(w)
    \/ \E w \in BagToSet(workers) : WorkerPop(w)
    \/ \E w \in BagToSet(workers) : WorkerConnect(w)
    \/ \E w \in BagToSet(workers) : WorkerInsert(w)
    \/ \E w \in BagToSet(workers) : WorkerUpdate(w)
    \/ \E w \in BagToSet(workers) : WorkerCommit(w)
    \/ \E w \in BagToSet(workers) : WorkerDupRollback(w)
    \/ \E w \in BagToSet(workers) : WorkerDupUpdate(w)
    \/ \E w \in BagToSet(workers) : WorkerDupCommit(w)
    \/ \E h \in BagToSet(handlers) : \E data \in StorableBodies : Publish(h, data)
    \/ \E h \in BagToSet(handlers) : \E data \in BatchRequests : PublishBatch(h, data)
    \/ \E h \in BagToSet(handlers) : HandlerAcquire(h)
    \/ \E h \in BagToSet(handlers) : HandlerAppend(h)
    \/ \E h \in BagToSet(handlers) : HandlerConnect(h)
    \/ \E h \in BagToSet(handlers) : HandlerUpdate(h)
    \/ \E h \in BagToSet(handlers) : HandlerCommit(h)

FairThreads ==
    /\ WF_vars(MainConnect)
    /\ WF_vars(MainCreateSchema)
    /\ WF_vars(\E w \in BagToSet(workers) : WorkerAcquire(w))
    /\ WF_vars(\E w \in BagToSet(workers) : WorkerPop(w))
    /\ WF_vars(\E w \in BagToSet(workers) : WorkerConnect(w))
    /\ WF_vars(\E w \in BagToSet(workers) : WorkerInsert(w))
    /\ WF_vars(\E w \in BagToSet(workers) : WorkerUpdate(w))
    /\ WF_vars(\E w \in BagToSet(workers) : WorkerCommit(w))
    /\ WF_vars(\E w \in BagToSet(workers) : WorkerDupRollback(w))
    /\ WF_vars(\E w \in BagToSet(workers) : WorkerDupUpdate(w))
    /\ WF_vars(\E w \in BagToSet(workers) : WorkerDupCommit(w))
    /\ WF_vars(HandlerStep)

SpecNoFailure == Init /\ [][NextNoFailure]_vars /\ FairThreads

(***************************************************************************)
(* A burst of publish requests of one event during a transient outage: the *)
(* server goes down once and comes back, and every thread is scheduled.    *)
(* MaxBurst events are enough for every worker of the pool to pop one      *)
(* while the server is down and for one more to arrive afterwards.         *)
(***************************************************************************)
MaxBurst == NumWorkers + 1

NextBurst ==
    \/ DbDown
    \/ DbUp
    \/ MainConnect
    \/ MainCreateSchema
    \/ \E w \in BagToSet(workers) : WorkerAcquire(w)
    \/ \E w \in BagToSet(workers) : WorkerPop(w)
    \/ \E w \in BagToSet(workers) : WorkerConnect(w)
    \/ \E w \in BagToSet(workers) : WorkerInsert(w)
    \/ \E w \in BagToSet(workers) : WorkerUpdate(w)
    \/ \E w \in BagToSet(workers) : WorkerCommit(w)
    \/ \E w \in BagToSet(workers) : WorkerDupRollback(w)
    \/ \E w \in BagToSet(workers) : WorkerDupUpdate(w)
    \/ \E w \in BagToSet(workers) : WorkerDupCommit(w)
    \/ \E w \in BagToSet(workers) : WorkerExcRollback(w)
    \/ \E h \in BagToSet(handlers) : PublishUpTo(h, EvC, MaxBurst)
    \/ \E h \in BagToSet(handlers) : HandlerAcquire(h)
    \/ \E h \in BagToSet(handlers) : HandlerAppend(h)
    \/ \E h \in BagToSet(handlers) : HandlerConnect(h)
    \/ \E h \in BagToSet(handlers) : HandlerUpdate(h)
    \/ \E h \in BagToSet(handlers) : HandlerCommit(h)

SpecBurst ==
    /\ Init
    /\ [][NextBurst]_vars
    /\ FairThreads
    /\ WF_vars(\E w \in BagToSet(workers) : WorkerExcRollback(w))
    /\ WF_vars(DbUp)

(***************************************************************************)
(* Shutdown.  app.run returns (or the process is signalled) and the main   *)
(* thread ends; the workers are daemon threads (daemon=True) that nothing  *)
(* signals or joins, and the request threads of the threaded server are    *)
(* daemon threads too, so every thread stops wherever it is.  The server   *)
(* rolls back the transactions of the dropped connections.  event_queue    *)
(* keeps the content the process had when it ended.                        *)
(***************************************************************************)
Killed(t) ==
    IF "ins" \in DOMAIN t
    THEN [t EXCEPT !.pc = "killed", !.conn = "none", !.ins = NoRow]
    ELSE [t EXCEPT !.pc = "killed", !.conn = "none"]

KillAll(pool) ==
    [k \in {Killed(t) : t \in DOMAIN pool} |->
        Copies(pool, {t \in DOMAIN pool : Killed(t) = k})]

Shutdown ==
    /\ main.pc = "running"
    /\ main' = [main EXCEPT !.pc = "exited"]
    /\ workers' = KillAll(workers)
    /\ handlers' = KillAll(handlers)
    /\ row_lock' = FALSE
    /\ UNCHANGED <<db_up, outages, event_queue, queue_lock, processed_events,
                   stats, requests, hist>>

NextShutdown ==
    \/ NextNoFailure
    \/ Shutdown

SpecShutdown == Init /\ [][NextShutdown]_vars

(***************************************************************************)
(* GET /queue/status: len(event_queue) read under queue_lock.  The service *)
(* with this route next to the publish routes, the workers and the         *)
(* outages; a status request counts as one of the MaxEvents submissions.   *)
(***************************************************************************)
QueueStatus(h) ==
    /\ h.pc \in {"h_idle", "h_done"}
    /\ requests + 1 <= MaxEvents
    /\ requests' = requests + 1
    /\ handlers' = Step(handlers, h,
                        [NewRequest("queue_status", <<>>) EXCEPT !.pc = "h_qlock"])
    /\ UNCHANGED <<main, db_up, outages, event_queue, queue_lock,
                   processed_events, stats, row_lock, workers, hist>>

\* with queue_lock:
StatusAcquire(h) ==
    /\ h.pc = "h_qlock"
    /\ ~queue_lock
    /\ queue_lock' = TRUE
    /\ handlers' = Step(handlers, h, [h EXCEPT !.pc = "h_len"])
    /\ UNCHANGED <<main, db_up, outages, event_queue, processed_events, stats,
                   row_lock, workers, requests, hist>>

\* queue_size = len(event_queue); the lock is released and the view returns
StatusLen(h) ==
    /\ h.pc = "h_len"
    /\ queue_lock' = FALSE
    /\ handlers' = Step(handlers, h,
                        Respond([h EXCEPT !.queue_size = Len(event_queue)], 200))
    /\ UNCHANGED <<main, db_up, outages, event_queue, processed_events, stats,
                   row_lock, workers, requests, hist>>

NextLocking ==
    \/ Next
    \/ \E h \in BagToSet(handlers) : QueueStatus(h)
    \/ \E h \in BagToSet(handlers) : StatusAcquire(h)
    \/ \E h \in BagToSet(handlers) : StatusLen(h)

SpecLocking == Init /\ [][NextLocking]_vars

(***************************************************************************)
(* Vocabulary of the properties.                                           *)
(***************************************************************************)
\* number of threads of a pool that are in one of the states S
CountIn(pool, S) == Copies(pool, S \cap DOMAIN pool)

WorkersAt(pcs) == {w \in DOMAIN workers : w.pc \in pcs}
HandlersAt(pcs) == {h \in DOMAIN handlers : h.pc \in pcs}

\* rows of processed_events with event_id e
RowsOf(e) == {i \in 1..Len(processed_events) : processed_events[i].event_id = e}

RECURSIVE SumOf(_, _)
SumOf(f, S) ==
    IF S = {} THEN 0
    ELSE LET x == CHOOSE y \in S : TRUE IN f[x] + SumOf(f, S \ {x})

TotalAccepted == SumOf(hist.accepted, EventIds)
TotalCreated == SumOf(hist.created, EventIds)
TotalDuplicate == SumOf(hist.duplicate, EventIds)

\* queue drained, no worker holds a dequeued event, no handler is between
\* its first queue append and its return
Quiescent ==
    /\ main.pc = "running"
    /\ event_queue = <<>>
    /\ WorkersAt({"w_lock", "w_pop", "dead"}) = DOMAIN workers
    /\ HandlersAt({"h_idle", "h_done"}) = DOMAIN handlers

\* workers whose open transaction holds an uncommitted insert of event_id e
PendingInserts(e) ==
    CountIn(workers, {w \in DOMAIN workers : w.ins # NoRow /\ w.ins.event_id = e})

(***************************************************************************)
(* C1: the store never holds two Stored Records with the same event_id,    *)
(* under every interleaving of the workers and handlers: of the inserts of *)
(* one event_id at most one is pending at a time and at most one commits,  *)
(* and a worker in the IntegrityError branch for a well-formed event has   *)
(* seen a committed row with its event_id.                                 *)
(***************************************************************************)
C1_OneRecordPerEventId ==
    /\ \A e \in EventIds : Cardinality(RowsOf(e)) <= 1
    /\ \A e \in EventIds : hist.created[e] <= 1
    /\ \A e \in EventIds : PendingInserts(e) <= 1
    /\ \A e \in EventIds : PendingInserts(e) = 1 => RowsOf(e) = {}
    /\ \A w \in WorkersAt({"w_dup_rollback", "w_dup_update", "w_dup_commit"}) :
          ~NullViolation(w.ev) => RowsOf(w.ev.event_id) # {}

\* two workers are in insert_event for the same event_id at once: one holds
\* the uncommitted insert, the other is at its INSERT statement
C1_Witness ==
    \E w1, w2 \in DOMAIN workers :
        /\ w1.pc \in {"w_update", "w_commit"} /\ w1.conn = "open"
        /\ w2.pc = "w_insert" /\ w2.conn = "open"
        /\ w2.ev.event_id = w1.ev.event_id

(***************************************************************************)
(* C2: when no store operation failed, once the queue is drained and no    *)
(* worker or handler is in flight, an event_id accepted N >= 1 times has   *)
(* exactly one Stored Record, was created once and dropped as duplicate    *)
(* N - 1 times, and the three counters are the totals: received = number   *)
(* of accepted events, unique_processed = number of distinct event_ids,    *)
(* duplicate_dropped = the rest.                                           *)
(***************************************************************************)
C2_Idempotent ==
    (Quiescent /\ ~hist.store_error) =>
        /\ \A e \in EventIds :
              hist.accepted[e] >= 1 =>
                  /\ Cardinality(RowsOf(e)) = 1
                  /\ hist.created[e] = 1
                  /\ hist.duplicate[e] = hist.accepted[e] - 1
        /\ Counter("received") = TotalAccepted
        /\ Counter("unique_processed") =
               Cardinality({e \in EventIds : hist.accepted[e] >= 1})
        /\ Counter("duplicate_dropped") =
               TotalAccepted - Counter("unique_processed")

\* the same event_id was accepted twice and the second one dropped
C2_Witness ==
    /\ Quiescent
    /\ ~hist.store_error
    /\ hist.accepted["e1"] = 2
    /\ hist.duplicate["e1"] = 1
    /\ Counter("duplicate_dropped") = 1

(***************************************************************************)
(* C3: in every state the committed counter unique_processed equals the    *)
(* number of committed Stored Records and the number of distinct stored    *)
(* event_ids, also while transactions are open, after an outage aborted    *)
(* them, and after workers died.                                           *)
(***************************************************************************)
C3_UniqueEqualsRows ==
    /\ Counter("unique_processed") = Len(processed_events)
    /\ Counter("unique_processed") = Cardinality(StoredIds)

\* a worker's transaction was aborted between its INSERT and its commit
\* while the store already holds a record
C3_Witness ==
    /\ Len(processed_events) >= 1
    /\ \E w \in WorkersAt({"w_update", "w_commit"}) : w.conn = "broken"

(***************************************************************************)
(* C4: in every quiescent state unique_processed + duplicate_dropped       *)
(* equals the number of accepted (enqueued) events whose persist attempt   *)
(* hit no store error, a store error being any error of a store operation  *)
(* other than the event_id collision.                                      *)
(***************************************************************************)
C4_CounterConservation ==
    Quiescent =>
        Counter("unique_processed") + Counter("duplicate_dropped")
            = TotalAccepted - hist.failed

(***************************************************************************)
(* C5: in every quiescent state unique_processed + duplicate_dropped is    *)
(* at most received, also in runs where increment_received or a worker's   *)
(* store operation fails.                                                  *)
(***************************************************************************)
C5_ProcessedAtMostReceived ==
    Quiescent =>
        Counter("unique_processed") + Counter("duplicate_dropped")
            <= Counter("received")

(***************************************************************************)
(* C6: in every reachable state received >= unique_processed.              *)
(***************************************************************************)
C6_ReceivedAtLeastUnique ==
    Counter("received") >= Counter("unique_processed")

(***************************************************************************)
(* C7: no store failure ends a worker: once the pool is started, the       *)
(* number of running workers is the pool size.                             *)
(***************************************************************************)
C7_WorkersStayAlive ==
    main.pc = "running" =>
        CountIn(workers, WorkersAt({"w_lock", "w_pop", "w_connect", "w_insert",
                                    "w_update", "w_commit", "w_dup_rollback",
                                    "w_dup_update", "w_dup_commit",
                                    "w_exc_rollback"})) = NumWorkers

(***************************************************************************)
(* C8: a valid publish request is answered by the handler's own steps.     *)
(* In runs where no worker ever takes a step, every request in progress is *)
(* eventually answered; a valid publish request is answered 202 (500 only  *)
(* when increment_received raised), whether or not its event_id is already *)
(* stored or queued; and an acknowledged request has appended its event,   *)
(* which is still in the queue, and counted it once.                       *)
(***************************************************************************)
Busy == HandlersAt({"h_lock", "h_append", "h_connect", "h_update", "h_commit"}) # {}

InQueue(ev) == \E i \in 1..Len(event_queue) : event_queue[i] = ev

C8_AckWithoutWorkers ==
    /\ Busy ~> ~Busy
    /\ [](\A h \in HandlersAt({"h_done"}) :
            (h.route = "publish" /\ Valid(h.events[1])) =>
                /\ h.status \in {202, 500}
                /\ h.status = 500 => hist.store_error
                /\ h.status = 202 =>
                      /\ h.enq = <<QueueEvent(h.events[1])>>
                      /\ InQueue(h.enq[1])
                      /\ h.counted = 1)

\* two submissions of one event_id whose record is already stored are both
\* acknowledged while both events are still queued
C8_Witness ==
    /\ RowsOf("e1") # {}
    /\ Len(event_queue) = 2
    /\ \A i \in 1..2 : event_queue[i].event_id = "e1"
    /\ CountIn(handlers, {h \in DOMAIN handlers :
                            h.route = "publish" /\ h.status = 202}) = 2
    /\ WorkersAt({"w_lock"}) = DOMAIN workers

(***************************************************************************)
(* C9: a publish request is answered 400 exactly when a required field is  *)
(* missing or the timestamp does not parse; the step that rejects it       *)
(* leaves the queue, the Stored Records and the three counters unchanged,  *)
(* and the rejected request has appended and counted nothing; only events  *)
(* that passed validation are ever on their way to the queue.              *)
(***************************************************************************)
\* handler states r that the step just taken produced
Arrived(r) == CopiesIn(r, handlers') > CopiesIn(r, handlers)

C9_RejectedPublishChangesNothing ==
    /\ [](\A h \in DOMAIN handlers :
            /\ h.route = "publish" => (h.status = 400 <=> ~Valid(h.events[1]))
            /\ h.pc \in {"h_lock", "h_append", "h_connect", "h_update",
                         "h_commit"} => Valid(h.events[h.idx]))
    /\ [][\A r \in DOMAIN handlers' :
            (r.route = "publish" /\ r.status = 400 /\ Arrived(r)) =>
                /\ UNCHANGED <<event_queue, processed_events, stats>>
                /\ r.enq = <<>>
                /\ r.counted = 0]_vars

\* a publish request with a bad timestamp was answered 400 while the
\* store already counts another, received event
C9_Witness ==
    /\ Counter("received") = 1
    /\ \E h \in HandlersAt({"h_done"}) :
          /\ h.route = "publish"
          /\ h.status = 400
          /\ ~MissingField(h.events[1])

(***************************************************************************)
(* C10: publish_batch handles the events in list order, one at a time.     *)
(* At every point the request has appended exactly the queue events of a   *)
(* prefix of its list, all valid, and counted each of them once (the last  *)
(* one between its append and its commit excepted); answered 400, the      *)
(* prefix ends right before the first invalid event (or the events field   *)
(* is missing) and the answering step removes nothing from the queue;      *)
(* answered 202, every event was appended and count is their number.       *)
(* Each step of a request adds to the queue and to received exactly what   *)
(* the request records as appended and counted, so nothing is enqueued or  *)
(* counted for the invalid event and the events after it.                  *)
(***************************************************************************)
SumEnq == SumOf([h \in DOMAIN handlers |-> handlers[h] * Len(h.enq)],
                DOMAIN handlers)
SumCounted == SumOf([h \in DOMAIN handlers |-> handlers[h] * h.counted],
                    DOMAIN handlers)

BatchInOrder(h) ==
    LET n == Len(h.enq)
    IN /\ n <= Len(h.events)
       /\ \A i \in 1..n : Valid(h.events[i]) /\ h.enq[i] = QueueEvent(h.events[i])
       /\ h.count = h.counted
       /\ h.pc \in {"h_lock", "h_append"} => (n = h.idx - 1 /\ h.counted = n)
       /\ h.pc \in {"h_connect", "h_update", "h_commit"} =>
              (n = h.idx /\ h.counted = n - 1)
       /\ h.status = 202 => (n = Len(h.events) /\ h.count = n)
       /\ h.status = 400 =>
              /\ h.counted = n
              /\ \/ h.events = <<>>
                 \/ /\ n = h.idx - 1
                    /\ h.idx <= Len(h.events)
                    /\ ~Valid(h.events[h.idx])

C10_BatchSequential ==
    /\ [](\A h \in DOMAIN handlers : h.route = "batch" => BatchInOrder(h))
    /\ [][/\ \A r \in DOMAIN handlers' :
               (r.route = "batch" /\ r.status = 400 /\ Arrived(r)) =>
                   UNCHANGED <<event_queue, processed_events>>
          /\ (requests' = requests /\ handlers' # handlers) =>
               /\ Counter("received")' - Counter("received")
                      = SumCounted' - SumCounted
               /\ Len(event_queue') - Len(event_queue) = SumEnq' - SumEnq
               /\ SumEnq' > SumEnq =>
                      \E r \in DOMAIN handlers' :
                          /\ Arrived(r)
                          /\ r.enq # <<>>
                          /\ event_queue' =
                                 Append(event_queue, r.enq[Len(r.enq)])]_vars

\* a batch whose second event is invalid was answered 400 after its first
\* event was appended and counted
C10_Witness ==
    \E h \in HandlersAt({"h_done"}) :
        /\ h.route = "batch"
        /\ h.status = 400
        /\ h.idx = 2
        /\ Len(h.enq) = 1
        /\ h.counted = 1
        /\ Counter("received") >= 1

(***************************************************************************)
(* C11: while no store operation fails and every thread is scheduled,      *)
(* every accepted event leaves the queue and ends Created or Duplicate: a  *)
(* Stored Record with its event_id eventually exists, carrying the topic   *)
(* of an accepted event with that event_id (the event's own topic when no  *)
(* accepted event shares its event_id under another topic), and the list   *)
(* query for the record's topic returns it; whenever every accepted event  *)
(* has reached its outcome there is one Stored Record per accepted         *)
(* event_id, so M events with distinct event_ids end as M records.         *)
(***************************************************************************)
StorableEvents == {QueueEvent(EvA), QueueEvent(EvB), QueueEvent(EvC)}

\* the list query for the topic of ev returns a record with its event_id
HasRecord(ev) ==
    \E r \in get_events_from_db(ev.topic) :
        r.event_id = ev.event_id /\ r.topic = ev.topic

AllPersisted == TotalCreated + TotalDuplicate = TotalAccepted

C11_AcceptedEventuallyStored ==
    /\ \A ev \in StorableEvents :
          InQueue(ev) ~>
              \E x \in StorableEvents : x.event_id = ev.event_id /\ HasRecord(x)
    /\ InQueue(QueueEvent(EvC)) ~> HasRecord(QueueEvent(EvC))
    /\ ~AllPersisted ~> AllPersisted
    /\ [](AllPersisted =>
            /\ StoredIds = {e \in EventIds : hist.accepted[e] >= 1}
            /\ Len(processed_events) = Cardinality(StoredIds))

\* two events with distinct event_ids, published by two concurrent requests,
\* ended as two Stored Records
C11_Witness ==
    /\ AllPersisted
    /\ Len(processed_events) = 2
    /\ CountIn(handlers, {h \in DOMAIN handlers :
                            h.route = "publish" /\ h.status = 202}) = 2

\* the claim as stated: the record carries the event's own topic
C11_RecordWithOwnTopic ==
    \A ev \in StorableEvents : InQueue(ev) ~> HasRecord(ev)

(***************************************************************************)
(* C12: get_db_connection makes at most max_retries = 5 attempts and       *)
(* returns at the first one that succeeds, whatever the availability of    *)
(* the server at each attempt; when the 5 attempts of init_database all    *)
(* fail, the main thread raises: from then on the process stays refused,   *)
(* no worker and no request handler thread exists, nothing was or is       *)
(* accepted and the queue stays empty.                                     *)
(***************************************************************************)
Availabilities == [1..max_retries -> BOOLEAN]

FirstSuccess(avail) ==
    IF \E i \in 1..max_retries : avail[i]
    THEN CHOOSE i \in 1..max_retries : avail[i] /\ \A j \in 1..(i - 1) : ~avail[j]
    ELSE 0

C12_StartupRefused ==
    /\ [](main.pc = "init_database" =>
            \A avail \in Availabilities :
                LET c == get_db_connection(avail)
                IN /\ c.attempts <= max_retries
                   /\ c.result = "connected" <=> FirstSuccess(avail) # 0
                   /\ c.result = "connected" => c.attempts = FirstSuccess(avail)
                   /\ c.result = "raise" => c.attempts = max_retries)
    /\ [](main.attempt + 1 <= max_retries)
    /\ [](main.pc = "refused" =>
            /\ workers = EmptyBag
            /\ handlers = EmptyBag
            /\ event_queue = <<>>
            /\ requests = 0
            /\ TotalAccepted = 0)
    /\ [][/\ (main.pc = "init_database" /\ main'.pc = "refused") =>
               (main.attempt + 1 = max_retries /\ ~db_up)
          /\ (main.pc = "init_database" /\ main' # main /\ db_up) =>
               main'.pc = "create_schema"
          /\ (main.pc = "init_database" /\ main' # main /\ ~db_up) =>
               IF main.attempt + 1 = max_retries
               THEN main'.pc = "refused"
               ELSE main'.pc = "init_database"
          /\ main.pc = "refused" => main'.pc = "refused"]_vars

\* the 5 attempts of init_database failed and the process ended; the server
\* came back afterwards
C12_Witness ==
    /\ main.pc = "refused"
    /\ main.attempt + 1 = max_retries
    /\ db_up

(***************************************************************************)
(* C13: between enqueue and claim no queue item is lost or duplicated.     *)
(* Every step leaves event_queue alone, or appends one event at the tail   *)
(* (and hands nothing to a worker), or removes the head and hands it to    *)
(* exactly one worker; a worker comes to hold an event in no other way, so *)
(* an appended event stays queued until a pop removes it and no two        *)
(* workers obtain the same item.  At most one thread is inside a           *)
(* "with queue_lock" block.                                                *)
(***************************************************************************)
\* every dict a request can append to the queue
QueueEvents ==
    {QueueEvent(d) : d \in {x \in SingleBodies : Valid(x)}}

\* number of workers that hold a dequeued copy of ev
Holding(ev) == CountIn(workers, {w \in DOMAIN workers : w.ev = ev})

\* number of threads inside a "with queue_lock" block
InLockBlock ==
    CountIn(workers, WorkersAt({"w_pop"}))
        + CountIn(handlers, HandlersAt({"h_append", "h_len"}))

C13_NoItemLostOrDuplicated ==
    /\ [](InLockBlock <= 1)
    /\ [][\/ /\ UNCHANGED event_queue
             /\ \A ev \in QueueEvents : Holding(ev)' <= Holding(ev)
          \/ /\ \E ev \in QueueEvents : event_queue' = Append(event_queue, ev)
             /\ UNCHANGED workers
          \/ /\ event_queue # <<>>
             /\ event_queue' = Tail(event_queue)
             /\ \A ev \in QueueEvents :
                   Holding(ev)' = Holding(ev)
                       + (IF ev = Head(event_queue) THEN 1 ELSE 0)]_vars

\* two equal items of one batch were claimed by two different workers
C13_Witness ==
    /\ event_queue = <<>>
    /\ Holding(QueueEvent(EvA)) = 2
    /\ hist.accepted["e1"] = 2

(***************************************************************************)
(* C14: the queue is FIFO for dequeue.  The events popped so far, in pop   *)
(* order, followed by the queue are the events appended so far, in append  *)
(* order: an event appended before another one is popped before it, and    *)
(* the events of a batch are popped in batch order.  Every pop takes the   *)
(* head.  (The order of the commits is free: see the witness.)             *)
(***************************************************************************)
C14_FifoDequeue ==
    /\ [](hist.appended = hist.popped \o event_queue)
    /\ [][hist'.popped # hist.popped =>
             /\ event_queue # <<>>
             /\ hist'.popped = Append(hist.popped, Head(event_queue))
             /\ event_queue' = Tail(event_queue)]_vars

\* the two events of a batch were popped in batch order and committed in
\* the opposite order
C14_Witness ==
    /\ hist.appended = <<QueueEvent(EvA), QueueEvent(EvC)>>
    /\ hist.popped = hist.appended
    /\ \E h \in DOMAIN handlers : h.route = "batch" /\ h.enq = hist.appended
    /\ processed_events = <<RowOf(QueueEvent(EvC)), RowOf(QueueEvent(EvA))>>

(***************************************************************************)
(* C15: every insert_event call ends in exactly one of three ways.  The    *)
(* step that ends a call either commits one new Stored Record together     *)
(* with unique_processed + 1 (Created), or commits duplicate_dropped + 1   *)
(* and no record (Duplicate), or returns after the rollback with the       *)
(* Stored Records and the counters unchanged (Failed); the steps of a      *)
(* worker inside a call change no Stored Record and no counter.            *)
(***************************************************************************)
\* workers inside insert_event
InCall ==
    CountIn(workers, WorkersAt({"w_connect", "w_insert", "w_update",
                                "w_commit", "w_dup_rollback", "w_dup_update",
                                "w_dup_commit", "w_exc_rollback"}))

\* worker threads ended by an exception
DeadWorkers == CountIn(workers, WorkersAt({"dead"}))

EndsCreated ==
    /\ TotalCreated' = TotalCreated + 1
    /\ Len(processed_events') = Len(processed_events) + 1
    /\ SubSeq(processed_events', 1, Len(processed_events)) = processed_events
    /\ stats' = IncrementCounter("unique_processed")

EndsDuplicate ==
    /\ TotalDuplicate' = TotalDuplicate + 1
    /\ UNCHANGED processed_events
    /\ stats' = IncrementCounter("duplicate_dropped")

EndsFailed ==
    /\ DeadWorkers' = DeadWorkers
    /\ UNCHANGED <<processed_events, stats>>

C15_InsertEventThreeEffects ==
    [][(main.pc = "running" /\ workers' # workers) =>
          IF InCall' < InCall
          THEN EndsCreated \/ EndsDuplicate \/ EndsFailed
          ELSE UNCHANGED <<processed_events, stats>>]_vars

(***************************************************************************)
(* C16: a persist failure never blocks the queue.  When the store fails    *)
(* for a while and then works again, every appended event is still popped  *)
(* by some worker, the events appended after a failed persist attempt      *)
(* included.  Only a running worker pops, so whenever an event is queued a  *)
(* worker must be left to pop it; and the step of a failing persist        *)
(* attempt leaves the queue as it is.                                      *)
(***************************************************************************)
C16_FailureNeverBlocksQueue ==
    /\ [](event_queue # <<>> => DeadWorkers < NumWorkers)
    /\ [][hist'.failed # hist.failed => UNCHANGED event_queue]_vars

(***************************************************************************)
(* C17: duplicate_dropped counts only event_id collisions.  A worker is in *)
(* the Duplicate branch of insert_event only while a Stored Record with    *)
(* the event_id of its event exists, whatever the values of the accepted   *)
(* event's fields; and as long as the accepted events have pairwise        *)
(* distinct event_ids, duplicate_dropped stays 0.                          *)
(***************************************************************************)
C17_DuplicateOnlyOnCollision ==
    /\ \A w \in WorkersAt({"w_dup_rollback", "w_dup_update", "w_dup_commit"}) :
          RowsOf(w.ev.event_id) # {}
    /\ (\A e \in EventIds : hist.accepted[e] <= 1) =>
          Counter("duplicate_dropped") = 0

(***************************************************************************)
(* C18: ordering independence.  Without store failure the quiescent result *)
(* is a function of the multiset of accepted events alone, whatever the    *)
(* order in which the workers committed them: the stored event_ids are the *)
(* event_ids of the accepted events, one record each, unique_processed is  *)
(* their number and duplicate_dropped the number of accepted events minus  *)
(* that number.                                                            *)
(***************************************************************************)
\* the event_ids of the events appended so far
AcceptedIds == {hist.appended[i].event_id : i \in 1..Len(hist.appended)}

C18_OrderIndependent ==
    (Quiescent /\ ~hist.store_error) =>
        /\ StoredIds = AcceptedIds
        /\ Len(processed_events) = Cardinality(AcceptedIds)
        /\ Counter("unique_processed") = Cardinality(AcceptedIds)
        /\ Counter("duplicate_dropped")
               = Len(hist.appended) - Cardinality(AcceptedIds)

\* two submissions of one event_id under different topics ended with the
\* record of the one appended second, the first one counted as duplicate
C18_Witness ==
    /\ Quiescent
    /\ ~hist.store_error
    /\ hist.appended = <<QueueEvent(EvA), QueueEvent(EvB)>>
    /\ processed_events = <<RowOf(QueueEvent(EvB))>>
    /\ Counter("duplicate_dropped") = 1

(***************************************************************************)
(* C19: on shutdown every worker that dequeued an event finishes its       *)
(* persist before it exits: when the process has ended, no worker was      *)
(* stopped while holding a dequeued event, and every accepted event was    *)
(* either persisted (Created or Duplicate) or is one of the events still   *)
(* in the queue.                                                           *)
(***************************************************************************)
C19_ShutdownFinishesInFlight ==
    main.pc = "exited" =>
        /\ \A w \in DOMAIN workers : w.ev = NoEvent
        /\ Len(hist.appended)
               = Len(event_queue) + TotalCreated + TotalDuplicate

(***************************************************************************)
(* C20: queue_lock covers exactly the single append, pop or len.  The lock *)
(* is held exactly while one thread is inside a "with queue_lock" block    *)
(* and never by two; every step that changes event_queue and every read of *)
(* its length is taken by the thread holding the lock, which releases it   *)
(* in that step; a thread inside the block has no store connection, and no *)
(* step that touches the store (rows, counters, row lock) takes, keeps     *)
(* from others or releases queue_lock, so a slow persist never delays an   *)
(* enqueue.                                                                *)
(***************************************************************************)
LockHolders ==
    {t \in DOMAIN workers : t.pc = "w_pop"}
        \cup {t \in DOMAIN handlers : t.pc \in {"h_append", "h_len"}}

C20_LockCoversQueueOnly ==
    /\ [](InLockBlock <= 1)
    /\ [](queue_lock <=> InLockBlock = 1)
    /\ [](\A t \in LockHolders : t.conn = "none")
    /\ [][/\ event_queue' # event_queue => (queue_lock /\ ~queue_lock')
          /\ \A r \in DOMAIN handlers' :
                (r.route = "queue_status" /\ r.status = 200 /\ Arrived(r)) =>
                    /\ queue_lock
                    /\ ~queue_lock'
                    /\ r.queue_size = Len(event_queue)
          /\ (processed_events' # processed_events \/ stats' # stats
                  \/ row_lock' # row_lock) =>
                UNCHANGED <<queue_lock, event_queue>>]_vars

\* a handler is appending under the lock while a worker, outside the lock,
\* has its transaction open
C20_Witness ==
    /\ queue_lock
    /\ \E h \in DOMAIN handlers : h.pc = "h_append"
    /\ \E w \in DOMAIN workers : w.pc = "w_commit" /\ w.conn = "open"

(***************************************************************************)
(* C21: deadlock freedom without store failure.  Whatever a thread waits   *)
(* for is held by a thread that does not wait: queue_lock by the one       *)
(* thread inside a with-block, whose pop or append needs nothing else; the *)
(* lock of the stats row by the one transaction at its commit; an          *)
(* uncommitted insert of the event_id by a worker that waits at most for   *)
(* the stats row.  With every thread scheduled, queue_lock and the row     *)
(* lock are always released again and a worker waiting at its INSERT is    *)
(* always released, by the commit of the transaction it waits for.         *)
(***************************************************************************)
\* transactions that hold the lock of the stats row
RowLockHolders ==
    CountIn(workers, {w \in DOMAIN workers :
                        w.pc \in {"w_commit", "w_dup_commit"} /\ w.conn = "open"})
        + CountIn(handlers, {h \in DOMAIN handlers :
                               h.pc = "h_commit" /\ h.conn = "open"})

\* some worker waits at its INSERT for an uncommitted insert of its event_id
InsertBlocked ==
    \E w \in DOMAIN workers : w.pc = "w_insert" /\ InsertWaits(w.ev)

C21_NoDeadlock ==
    /\ [](queue_lock => InLockBlock = 1)
    /\ [](row_lock => RowLockHolders = 1)
    /\ [](\A w \in DOMAIN workers :
            (w.pc = "w_insert" /\ InsertWaits(w.ev)) =>
                \E o \in DOMAIN workers :
                    /\ o.pc \in {"w_update", "w_commit"}
                    /\ o.conn = "open"
                    /\ o.ins.event_id = w.ev.event_id)
    /\ queue_lock ~> ~queue_lock
    /\ row_lock ~> ~row_lock
    /\ InsertBlocked ~> ~InsertBlocked
    /\ [][(InsertBlocked /\ ~InsertBlocked') =>
             Len(processed_events') = Len(processed_events) + 1]_vars

\* a chain of waits: a worker waits at its INSERT for the uncommitted insert
\* of a second worker, which waits for the stats row held by a handler
C21_Witness ==
    /\ InsertBlocked
    /\ \E o \in DOMAIN workers : o.pc = "w_update" /\ o.ins # NoRow
    /\ \E h \in DOMAIN handlers : h.pc = "h_commit" /\ h.conn = "open"
    /\ row_lock

(***************************************************************************)
(* C22: first writer wins and a Stored Record never changes.  Every step   *)
(* keeps the Stored Records it finds, in place and unmodified, and adds at *)
(* most one, for an event_id not stored yet, with the columns of the event *)
(* of the worker that commits; so every record carries the topic, source,  *)
(* timestamp and payload (as read back from the JSONB column) of one       *)
(* dequeued event with its event_id, and later events with that event_id,  *)
(* counted as duplicates, leave it as it is.                               *)
(***************************************************************************)
\* row is the record of the dequeued event ev
RecordOf(row, ev) ==
    /\ row.event_id = ev.event_id
    /\ row.topic = ev.topic
    /\ row.source = ev.source
    /\ row.timestamp = ev.timestamp
    /\ JsonLoads(row.payload) = ev.payload

C22_FirstWriterWins ==
    /\ [](\A i \in 1..Len(processed_events) :
            \E k \in 1..Len(hist.popped) :
                RecordOf(processed_events[i], hist.popped[k]))
    /\ [][/\ Len(processed_events') >= Len(processed_events)
          /\ SubSeq(processed_events', 1, Len(processed_events)) = processed_events
          /\ Len(processed_events') <= Len(processed_events) + 1
          /\ Len(processed_events') = Len(processed_events) + 1 =>
                LET new == processed_events'[Len(processed_events')]
                IN /\ new.event_id \notin StoredIds
                   /\ \E w \in DOMAIN workers :
                         /\ w.pc = "w_commit"
                         /\ w.conn = "open"
                         /\ RecordOf(new, w.ev)
                         /\ CopiesIn(w, workers') < CopiesIn(w, workers)]_vars

\* the record of the first event was kept when a later accepted event with
\* the same event_id and another topic and payload was counted as duplicate
C22_Witness ==
    /\ hist.appended = <<QueueEvent(EvA), QueueEvent(EvB)>>
    /\ processed_events = <<RowOf(QueueEvent(EvA))>>
    /\ hist.duplicate["e1"] = 1
    /\ Counter("duplicate_dropped") = 1
====
